---- MODULE Spec2Model ----
(***************************************************************************)
(* Global CO2 tracker: the interactive Expo app (src/App.tsx) and the      *)
(* batch updater (src/scripts/update-co2.mjs).                             *)
(*                                                                         *)
(* Three specifications share this module:                                 *)
(*   SpecNorm  the response normalizers of both programs, applied to every *)
(*             response body of a bounded universe;                        *)
(*   SpecKey   getOpenAIApiKey, applied to every configuration;            *)
(*   Spec      one run of either program: the App component's state        *)
(*             machine (mount, pull-to-refresh, responses) or the script.  *)
(***************************************************************************)
EXTENDS Integers, Sequences, FiniteSets, TLC

VARIABLES
    json,        \* SpecNorm: the decoded response body under normalization
    appOut,      \* SpecNorm: outcome of App.tsx's normalizer on json
    scriptOut,   \* SpecNorm: outcome of update-co2.mjs's normalizer on json
    env,         \* process.env / expoConfig.extra, as read by the programs
    keyOut,      \* SpecKey: what getOpenAIApiKey returned
    program,     \* Spec: the program this run executes, "app" or "script"
    reading,     \* App state: the reading held, or null
    loading,     \* App state
    error,       \* App state: the error message, or null
    refreshing,  \* App state
    mounted,     \* App: whether the mount effect has run
    loads,       \* App: the calls of loadReading so far, in order of their start
    requests,    \* HTTP requests issued so far by the program
    pc,          \* script: where the run stands
    result,      \* script: the payload built, or the error the run ended with
    file         \* script: the content of data/latest_co2.json

normVars == <<json, appOut, scriptOut>>
appVars == <<reading, loading, error, refreshing, mounted, loads>>
scriptVars == <<pc, result, file>>
vars == <<json, appOut, scriptOut, env, keyOut, program, reading, loading, error,
          refreshing, mounted, loads, requests, pc, result, file>>

(***************************************************************************)
(* Bounds of the model.                                                    *)
(***************************************************************************)
\* content items of a response, over all its output items
MaxItems == 2
\* entries of a list-valued output_text
MaxTextList == 2
\* calls of loadReading in one run of the app (the mount's and the refreshes')
MaxLoads == 3

(***************************************************************************)
(* JavaScript values.  A scalar is a record [t, n, nk, s]: t is the type   *)
(* tag, n the value of a finite number or boolean, nk the kind of a        *)
(* number, s the characters of a string.                                   *)
(***************************************************************************)
Undefined == [t |-> "undefined", n |-> 0, nk |-> "", s |-> <<>>]
Null == [t |-> "null", n |-> 0, nk |-> "", s |-> <<>>]
Num(k) == [t |-> "number", n |-> k, nk |-> "finite", s |-> <<>>]
Infinity == [t |-> "number", n |-> 0, nk |-> "Infinity", s |-> <<>>]
NaN == [t |-> "number", n |-> 0, nk |-> "NaN", s |-> <<>>]
Str(cs) == [t |-> "string", n |-> 0, nk |-> "", s |-> cs]
Bool(b) == [t |-> "boolean", n |-> IF b THEN 1 ELSE 0, nk |-> "", s |-> <<>>]
ObjectTag == [t |-> "object", n |-> 0, nk |-> "", s |-> <<>>]
ArrayTag == [t |-> "array", n |-> 0, nk |-> "", s |-> <<>>]

\* typeof x
TypeOf(x) ==
    CASE x.t = "null" -> "object"
      [] x.t = "array" -> "object"
      [] OTHER -> x.t

\* ToBoolean(x): what !x and x && ... test
Truthy(x) ==
    CASE x.t = "undefined" -> FALSE
      [] x.t = "null" -> FALSE
      [] x.t = "boolean" -> x.n = 1
      [] x.t = "number" -> x.nk = "Infinity" \/ (x.nk = "finite" /\ x.n # 0)
      [] x.t = "string" -> Len(x.s) > 0
      [] OTHER -> TRUE

\* x ?? y falls through on null and undefined only
Nullish(x) == x.t \in {"undefined", "null"}

Digits == <<"0", "1", "2", "3", "4", "5", "6", "7", "8", "9">>

IsDigit(c) == \E d \in 1..Len(Digits) : Digits[d] = c

DigitValue(c) == (CHOOSE d \in 1..Len(Digits) : Digits[d] = c) - 1

RECURSIVE DecimalValue(_)
DecimalValue(cs) ==
    IF Len(cs) = 0 THEN 0
    ELSE 10 * DecimalValue(SubSeq(cs, 1, Len(cs) - 1)) + DigitValue(cs[Len(cs)])

\* StringToNumber on strings of letters and digits: the empty string is 0,
\* a string of digits its decimal value, anything else NaN
StringToNumber(cs) ==
    IF \A i \in 1..Len(cs) : IsDigit(cs[i]) THEN Num(DecimalValue(cs)) ELSE NaN

\* Number(x)
ToNumber(x) ==
    CASE x.t = "undefined" -> NaN
      [] x.t = "null" -> Num(0)
      [] x.t = "boolean" -> Num(x.n)
      [] x.t = "number" -> x
      [] x.t = "string" -> StringToNumber(x.s)
      [] x.t = "array" -> Num(0)
      [] OTHER -> NaN

\* Number.isFinite(x)
IsFinite(x) == x.t = "number" /\ x.nk = "finite"

(***************************************************************************)
(* JSON values as the normalizers see them: the value itself (v) and, for  *)
(* an object, its ppm, source and timestamp properties.  Reading one of    *)
(* the three properties of a primitive or an array yields undefined.       *)
(***************************************************************************)
Prim(x) == [v |-> x, ppm |-> Undefined, source |-> Undefined, timestamp |-> Undefined]
Obj(p, s, t) == [v |-> ObjectTag, ppm |-> p, source |-> s, timestamp |-> t]
EmptyArray == Prim(ArrayTag)
NoValue == Prim(Undefined)

(***************************************************************************)
(* JSON text, as a sequence of lexical tokens [k, n, e, s]: punctuation,   *)
(* the literals null/true/false, a number n * 10^e, a string with          *)
(* characters s, or a lexical error ("bad").  The empty sequence is the    *)
(* empty string.                                                           *)
(***************************************************************************)
Punct(k) == [k |-> k, n |-> 0, e |-> 0, s |-> <<>>]
NumTok(n, e) == [k |-> "num", n |-> n, e |-> e, s |-> <<>>]
StrTok(cs) == [k |-> "str", n |-> 0, e |-> 0, s |-> cs]
BadTok == Punct("bad")

\* the value of a JSON number literal: beyond the range of a double (decimal
\* exponent 308) it is Infinity
NumberLiteral(tok) ==
    IF tok.n # 0 /\ tok.e > 308 THEN Infinity ELSE Num(tok.n * (10 ^ tok.e))

IsScalarTok(tok) == tok.k \in {"null", "true", "false", "num", "str"}

ScalarOf(tok) ==
    CASE tok.k = "null" -> Null
      [] tok.k = "true" -> Bool(TRUE)
      [] tok.k = "false" -> Bool(FALSE)
      [] tok.k = "num" -> NumberLiteral(tok)
      [] tok.k = "str" -> Str(tok.s)

PpmKey == <<"p", "p", "m">>
SourceKey == <<"s", "o", "u", "r", "c", "e">>
TimestampKey == <<"t", "i", "m", "e", "s", "t", "a", "m", "p">>

\* obj[key] = x, for the three properties the normalizers read
SetProp(obj, key, x) ==
    CASE key = PpmKey -> [obj EXCEPT !.ppm = x]
      [] key = SourceKey -> [obj EXCEPT !.source = x]
      [] key = TimestampKey -> [obj EXCEPT !.timestamp = x]
      [] OTHER -> obj

ParseFail == [ok |-> FALSE, val |-> NoValue]
ParseOk(x) == [ok |-> TRUE, val |-> x]

\* members of an object from token i on: "key" : scalar, then , or the closing }
RECURSIVE ParseMembers(_, _, _)
ParseMembers(toks, i, obj) ==
    IF i + 3 > Len(toks) THEN ParseFail
    ELSE IF ~(toks[i].k = "str" /\ toks[i + 1].k = ":" /\ IsScalarTok(toks[i + 2]))
    THEN ParseFail
    ELSE LET next == SetProp(obj, toks[i].s, ScalarOf(toks[i + 2]))
         IN CASE toks[i + 3].k = "}" -> IF i + 3 = Len(toks) THEN ParseOk(next) ELSE ParseFail
              [] toks[i + 3].k = "," -> ParseMembers(toks, i + 4, next)
              [] OTHER -> ParseFail

\* JSON.parse(text): the parsed value, or a SyntaxError (ok = FALSE)
JSONParse(toks) ==
    CASE Len(toks) = 0 -> ParseFail
      [] Len(toks) = 1 -> IF IsScalarTok(toks[1]) THEN ParseOk(Prim(ScalarOf(toks[1]))) ELSE ParseFail
      [] Len(toks) = 2 ->
            IF toks[1].k = "[" /\ toks[2].k = "]" THEN ParseOk(EmptyArray)
            ELSE IF toks[1].k = "{" /\ toks[2].k = "}" THEN ParseOk(Obj(Undefined, Undefined, Undefined))
            ELSE ParseFail
      [] OTHER ->
            IF toks[1].k = "{" THEN ParseMembers(toks, 2, Obj(Undefined, Undefined, Undefined))
            ELSE ParseFail

(***************************************************************************)
(* The response body (type OpenAIResponse).  A text field is undefined, a  *)
(* string (its tokens) or, in a list-valued output_text, a number.         *)
(***************************************************************************)
NoText == [t |-> "undefined", toks |-> <<>>]
Text(toks) == [t |-> "string", toks |-> toks]
\* a number where a string is expected; toks is what String(n) reads
NumberEntry(k) == [t |-> "number", toks |-> <<NumTok(k, 0)>>]

\* !text
TextTruthy(x) ==
    CASE x.t = "undefined" -> FALSE
      [] x.t = "string" -> Len(x.toks) > 0
      [] OTHER -> x.toks # <<NumTok(0, 0)>>

\* the type property of a content item: a string, or undefined
NoType == [t |-> "undefined", name |-> ""]
Type(name) == [t |-> "string", name |-> name]

\* a content item: an object with optional type, text and json properties;
\* NoItem is what find returns when nothing matches
Item(type, text, value) == [t |-> "object", type |-> type, text |-> text, json |-> value]
NoItem == [t |-> "undefined", type |-> NoType, text |-> NoText, json |-> NoValue]

NoArray == [t |-> "undefined", items |-> <<>>]
Array(items) == [t |-> "array", items |-> items]

\* an output item with its content (an array of content items, or undefined)
OutputItem(content) == [content |-> content]

\* output_text: undefined, a string or a list of entries
NoOutputText == [t |-> "undefined", toks |-> <<>>, list |-> <<>>]
OutputTextString(toks) == [t |-> "string", toks |-> toks, list |-> <<>>]
OutputTextList(list) == [t |-> "array", toks |-> <<>>, list |-> list]

Response(output, output_text) == [output |-> output, output_text |-> output_text]

(***************************************************************************)
(* Outcomes of a fetch: a Reading, or one of the errors thrown.            *)
(***************************************************************************)
Ok(r) == [kind |-> "Reading", message |-> "", reading |-> r]
Err(kind, message) == [kind |-> kind, message |-> message, reading |-> NoValue]
NotRun == [kind |-> "none", message |-> "", reading |-> NoValue]
\* a candidate reading obtained, not yet checked
Candidate(x) == [kind |-> "candidate", message |-> "", reading |-> x]

\* index of the first element of seq satisfying P, 0 when there is none:
\* Array.prototype.find
FindIndex(seq, P(_)) ==
    LET hits == {i \in 1..Len(seq) : P(seq[i])}
    IN IF hits = {} THEN 0 ELSE CHOOSE i \in hits : \A j \in hits : i <= j

RECURSIVE Concat(_)
Concat(seqs) == IF Len(seqs) = 0 THEN <<>> ELSE Head(seqs) \o Concat(Tail(seqs))

\* outputs.flatMap(content): the content items of all output items, in order
FlatMap(outputs, content(_)) == Concat([i \in 1..Len(outputs) |-> content(outputs[i])])

\* seq.find(P)
Find(seq, P(_), none) ==
    LET i == FindIndex(seq, P) IN IF i = 0 THEN none ELSE seq[i]

(***************************************************************************)
(* App.tsx, fetchCurrentCo2: normalization of the decoded response body.   *)
(***************************************************************************)
\* (json.output ?? []).flatMap((item) => item.content ?? [])
contentItems(j) ==
    FlatMap(IF j.output.t = "undefined" THEN <<>> ELSE j.output.items,
            LAMBDA o : IF o.content.t = "undefined" THEN <<>> ELSE o.content.items)

\* mutant: the 'json_schema' tag is forgotten
isJsonContent_JsonOnly(item) ==
    /\ item.t = "object"
    /\ item.type = Type("json")

isJsonContent(item) ==
    /\ item.t = "object"
    /\ item.type \in {Type("json"), Type("json_schema")}

isTextContent(item) ==
    /\ item.t = "object"
    /\ item.text.t = "string"

\* contentItems.find(isJsonContent)
structuredContent(j) == Find(contentItems(j), isJsonContent, NoItem)

\* structuredContent?.json && typeof structuredContent.json === 'object'
usesStructured(j) ==
    LET value == structuredContent(j).json
    IN Truthy(value.v) /\ TypeOf(value.v) = "object"

\* mutant: the last element of a list-valued output_text is taken
rawContentCandidate_LastElement(j) ==
    LET textItem == Find(contentItems(j), isTextContent, NoItem)
    IN IF textItem.t # "undefined" THEN textItem.text
       ELSE IF j.output_text.t = "array"
       THEN IF Len(j.output_text.list) = 0 THEN NoText
            ELSE j.output_text.list[Len(j.output_text.list)]
       ELSE [t |-> j.output_text.t, toks |-> j.output_text.toks]

\* mutant: output_text is preferred to the content items' text
rawContentCandidate_OutputTextFirst(j) ==
    LET textItem == Find(contentItems(j), isTextContent, NoItem)
    IN IF j.output_text.t = "array" /\ Len(j.output_text.list) > 0 THEN j.output_text.list[1]
       ELSE IF j.output_text.t = "string" THEN [t |-> "string", toks |-> j.output_text.toks]
       ELSE textItem.text

\* contentItems.find(isTextContent)?.text ??
\*   (Array.isArray(json.output_text) ? json.output_text[0] : json.output_text)
rawContentCandidate(j) ==
    LET textItem == Find(contentItems(j), isTextContent, NoItem)
    IN IF textItem.t # "undefined" THEN textItem.text
       ELSE IF j.output_text.t = "array"
       THEN IF Len(j.output_text.list) = 0 THEN NoText ELSE j.output_text.list[1]
       ELSE [t |-> j.output_text.t, toks |-> j.output_text.toks]

MsgAppNoContent == "OpenAI did not return any textual content."
MsgAppMalformed == "Failed to parse OpenAI response as JSON."
MsgAppValidation == "OpenAI response JSON was missing required fields."
\* the engine's message for reading a property of null
MsgTypeError == "Cannot read properties of null (reading 'ppm')"

\* the check of the candidate and the return; reading a property of null throws
validateParsed(parsed) ==
    IF Nullish(parsed.v) THEN Err("TypeError", MsgTypeError)
    ELSE IF \/ TypeOf(parsed.ppm) # "number"
            \/ ~Truthy(parsed.source)
            \/ ~Truthy(parsed.timestamp)
    THEN Err("ValidationError", MsgAppValidation)
    ELSE Ok(parsed)

\* mutant: the check of a missing candidate is left to JSON.parse
parsed_NoContentCheck(j) ==
    IF usesStructured(j) THEN Candidate(structuredContent(j).json)
    ELSE LET got == JSONParse(rawContentCandidate(j).toks)
         IN IF ~got.ok THEN Err("MalformedJsonError", MsgAppMalformed)
            ELSE Candidate(got.val)

\* lines 130-147: the candidate (parsed), or the error thrown on the way to it
parsed(j) ==
    IF usesStructured(j) THEN Candidate(structuredContent(j).json)
    ELSE LET raw == rawContentCandidate(j)
             got == JSONParse(raw.toks)
         IN IF ~TextTruthy(raw) THEN Err("NoContentError", MsgAppNoContent)
            ELSE IF ~got.ok THEN Err("MalformedJsonError", MsgAppMalformed)
            ELSE Candidate(got.val)

\* fetchCurrentCo2 from `const json = await response.json()` to its return
normalizeApp(j) ==
    IF parsed(j).kind = "candidate" THEN validateParsed(parsed(j).reading) ELSE parsed(j)

(***************************************************************************)
(* scripts/update-co2.mjs: normalization of the decoded response body.     *)
(***************************************************************************)
\* Array.isArray(json.output) ? json.output : []
outputItems(j) == IF j.output.t = "array" THEN j.output.items ELSE <<>>

\* outputItems.flatMap((item) => Array.isArray(item?.content) ? item.content : [])
scriptContentItems(j) ==
    FlatMap(outputItems(j),
            LAMBDA o : IF o.content.t = "array" THEN o.content.items ELSE <<>>)

structuredItem(j) == Find(scriptContentItems(j), isJsonContent, NoItem)

\* textItem?.text ?? (Array.isArray(json.output_text)
\*   ? json.output_text.find((entry) => typeof entry === 'string') : json.output_text)
fallbackText(j) ==
    LET textItem == Find(scriptContentItems(j), isTextContent, NoItem)
        isString(entry) == entry.t = "string"
    IN IF textItem.t # "undefined" THEN textItem.text
       ELSE IF j.output_text.t = "array" THEN Find(j.output_text.list, isString, NoText)
       ELSE [t |-> j.output_text.t, toks |-> j.output_text.toks]

MsgScriptNoContent == "OpenAI response did not include usable content."
MsgScriptMalformed == "Failed to parse OpenAI response JSON."
MsgScriptValidation == "OpenAI response JSON is missing required fields."

\* reading?.ppm: undefined when reading (here r) is null or undefined
Optional(r, prop) == IF Nullish(r.v) THEN Undefined ELSE prop

\* lines 88-101: coercion, the check and the payload (updated_at apart)
validateReading(r) ==
    LET ppm == ToNumber(Optional(r, r.ppm))
        src == Optional(r, r.source)
        ts == Optional(r, r.timestamp)
        source == IF TypeOf(src) = "string" THEN src ELSE Undefined
        timestamp == IF TypeOf(ts) = "string" THEN ts ELSE Undefined
    IN IF ~IsFinite(ppm) \/ ~Truthy(source) \/ ~Truthy(timestamp)
       THEN Err("ValidationError", MsgScriptValidation)
       ELSE Ok(Obj(ppm, source, timestamp))

\* mutant: a text that fails to parse is carried on as an undefined candidate
scriptReading_ParseUnchecked(j) ==
    LET r == structuredItem(j).json
    IN IF Truthy(r.v) THEN Candidate(r)
       ELSE LET text == fallbackText(j)
                got == JSONParse(text.toks)
            IN IF ~TextTruthy(text) \/ text.t # "string"
               THEN Err("NoContentError", MsgScriptNoContent)
               ELSE IF ~got.ok THEN Candidate(Prim(Undefined))
               ELSE Candidate(got.val)

\* lines 69-86: the candidate (reading), or the error thrown on the way to it
scriptReading(j) ==
    LET r == structuredItem(j).json
    IN IF Truthy(r.v) THEN Candidate(r)
       ELSE LET text == fallbackText(j)
                got == JSONParse(text.toks)
            IN IF ~TextTruthy(text) \/ text.t # "string"
               THEN Err("NoContentError", MsgScriptNoContent)
               ELSE IF ~got.ok THEN Err("MalformedJsonError", MsgScriptMalformed)
               ELSE Candidate(got.val)

\* update-co2.mjs from `const json = await response.json()` to the payload
normalizeScript(j) ==
    IF scriptReading(j).kind = "candidate" THEN validateReading(scriptReading(j).reading)
    ELSE scriptReading(j)

(***************************************************************************)
(* The universe of response bodies the normalizers are applied to.         *)
(***************************************************************************)
\* the token of a scalar; a number beyond the double range is written 1e999
ScalarTok(x) ==
    CASE x.t = "null" -> Punct("null")
      [] x.t = "boolean" -> IF x.n = 1 THEN Punct("true") ELSE Punct("false")
      [] x.t = "number" -> IF x.nk = "finite" THEN NumTok(x.n, 0) ELSE NumTok(1, 999)
      [] x.t = "string" -> StrTok(x.s)

Member(key, x) == IF x.t = "undefined" THEN <<>> ELSE <<<<StrTok(key), Punct(":"), ScalarTok(x)>>>>

RECURSIVE Join(_)
Join(members) ==
    IF Len(members) = 0 THEN <<>>
    ELSE IF Len(members) = 1 THEN Head(members)
    ELSE Head(members) \o <<Punct(",")>> \o Join(Tail(members))

\* a JSON text of the value c; absent properties are left out
Encode(c) ==
    CASE c.v.t = "object" ->
            <<Punct("{")>>
            \o Join(Member(PpmKey, c.ppm) \o Member(SourceKey, c.source)
                    \o Member(TimestampKey, c.timestamp))
            \o <<Punct("}")>>
      [] c.v.t = "array" -> <<Punct("["), Punct("]")>>
      [] OTHER -> <<ScalarTok(c.v)>>

PpmValues == {Undefined, Null, Num(421), Infinity, Str(<<"4", "2", "1">>), Str(<<"a">>)}
SourceValues == {Undefined, Str(<<>>), Str(<<"u">>), Num(5)}
TimestampValues == {Undefined, Str(<<>>), Str(<<"t">>), Num(5)}

\* every JSON value a candidate reading ranges over
Candidates ==
    {Obj(p, s, t) : p \in PpmValues, s \in SourceValues, t \in TimestampValues}
    \cup {Prim(Null), Prim(Num(5)), Prim(Bool(TRUE)), Prim(Str(<<"u">>)), EmptyArray}

\* three valid readings, told apart by their values
ReadingA == Obj(Num(421), Str(<<"u">>), Str(<<"t">>))
ReadingB == Obj(Num(419), Str(<<"v">>), Str(<<"s">>))
ReadingC == Obj(Num(420), Str(<<"w">>), Str(<<"r">>))

\* a text that is not JSON: a reading cut short, and free prose
CutShort(toks) == SubSeq(toks, 1, Len(toks) - 1)
Prose == <<BadTok, BadTok>>

SeqsUpTo(S, n) == UNION {[1..k -> S] : k \in 0..n}

\* a response carrying one candidate, in each of the four places it can be
SimpleResponses ==
    UNION {{Response(Array(<<OutputItem(Array(<<Item(Type("json_schema"), NoText, c)>>))>>),
                     NoOutputText),
            Response(Array(<<OutputItem(Array(<<Item(Type("output_text"), Text(Encode(c)), NoValue)>>))>>),
                     NoOutputText),
            Response(NoArray, OutputTextString(Encode(c))),
            Response(NoArray, OutputTextList(<<Text(Encode(c))>>))} : c \in Candidates}

PaletteItems ==
    {Item(Type("json"), NoText, ReadingA),
     Item(Type("json_schema"), NoText, NoValue),
     Item(Type("output_text"), Text(Encode(ReadingB)), NoValue),
     Item(Type("output_text"), Text(<<>>), NoValue),
     Item(NoType, Text(CutShort(Encode(ReadingB))), NoValue),
     Item(Type("refusal"), NoText, NoValue)}

\* the content items spread over output items: all in one, or one output item
\* each after an output item without content; no output at all when empty
Groupings(items) ==
    {Array(<<OutputItem(Array(items))>>),
     Array(<<OutputItem(NoArray)>> \o [i \in 1..Len(items) |-> OutputItem(Array(<<items[i]>>))])}
    \cup (IF Len(items) = 0 THEN {NoArray} ELSE {})

PaletteOutputTexts ==
    {NoOutputText}
    \cup {OutputTextString(toks) : toks \in {Encode(ReadingC), <<>>, Prose}}
    \cup {OutputTextList(list) :
            list \in SeqsUpTo({Text(Encode(ReadingC)), Text(<<>>), NumberEntry(5)}, MaxTextList)}

\* every arrangement of the palette's content items and output_text
ShapedResponses ==
    UNION {{Response(output, text) : output \in Groupings(items), text \in PaletteOutputTexts}
           : items \in SeqsUpTo(PaletteItems, MaxItems)}

Responses == SimpleResponses \cup ShapedResponses

(***************************************************************************)
(* SpecNorm: each normalizer applied once to a response of the universe.   *)
(***************************************************************************)
NoEnv == [EXPO_PUBLIC_OPENAI_API_KEY |-> Undefined, OPENAI_API_KEY |-> Undefined,
          openaiApiKey |-> Undefined]
Unresolved == [t |-> "unresolved", n |-> 0, nk |-> "", s |-> <<>>]
NoResponse == Response(NoArray, NoOutputText)
NoError == [t |-> "null", message |-> ""]
Message(m) == [t |-> "string", message |-> m]
NoFile == [exists |-> FALSE, payload |-> NoValue, updated_at |-> ""]

\* the variables of the program run, while a pure function is under check
RunIdle ==
    /\ program = "none"
    /\ reading = Prim(Null)
    /\ loading = TRUE
    /\ error = NoError
    /\ refreshing = FALSE
    /\ mounted = FALSE
    /\ loads = <<>>
    /\ requests = 0
    /\ pc = "start"
    /\ result = NotRun
    /\ file = NoFile

runVars == <<program, reading, loading, error, refreshing, mounted, loads, requests,
             pc, result, file>>

InitNorm ==
    /\ json \in Responses
    /\ appOut = NotRun
    /\ scriptOut = NotRun
    /\ env = NoEnv
    /\ keyOut = Unresolved
    /\ RunIdle

RunApp ==
    /\ appOut = NotRun
    /\ appOut' = normalizeApp(json)
    /\ UNCHANGED <<json, scriptOut, env, keyOut, runVars>>

RunScript ==
    /\ scriptOut = NotRun
    /\ scriptOut' = normalizeScript(json)
    /\ UNCHANGED <<json, appOut, env, keyOut, runVars>>

NextNorm == RunApp \/ RunScript

SpecNorm == InitNorm /\ [][NextNorm]_vars

(***************************************************************************)
(* Properties of the normalizers (SpecNorm).                               *)
(***************************************************************************)
\* an object with a numeric ppm, a non-empty string source and a non-empty
\* string timestamp
IsReadingObject(c) ==
    /\ c.v.t = "object"
    /\ c.ppm.t = "number"
    /\ c.source.t = "string" /\ c.source.s # <<>>
    /\ c.timestamp.t = "string" /\ c.timestamp.s # <<>>

\* a content item tagged 'json' or 'json_schema'
IsTagged(item) == item.type.t = "string" /\ item.type.name \in {"json", "json_schema"}

TaggedAt(j) == {i \in 1..Len(contentItems(j)) : IsTagged(contentItems(j)[i])}

FirstTagged(j) == CHOOSE i \in TaggedAt(j) : \A k \in TaggedAt(j) : i <= k

\* the response has the shape of type OpenAIResponse: output_text is a string
\* or a list of strings
WellTyped(j) == \A i \in 1..Len(j.output_text.list) : j.output_text.list[i].t = "string"

\* C1 as stated: whenever some content item tagged 'json' or 'json_schema'
\* embeds an object with a numeric ppm and non-empty string source and
\* timestamp, wherever it sits, fetchCurrentCo2 returns a Reading with
\* exactly those values.
C1_AnyTaggedItemIsReturned ==
    (appOut # NotRun /\ WellTyped(json)) =>
        \A i \in TaggedAt(json) :
            IsReadingObject(contentItems(json)[i].json) => appOut = Ok(contentItems(json)[i].json)

\* C1 amended: whenever the first content item tagged 'json' or 'json_schema'
\* embeds an object with a numeric ppm and non-empty string source and
\* timestamp, fetchCurrentCo2 returns a Reading with exactly those values,
\* whatever untagged items precede it, whatever items follow it and whatever
\* output_text the response carries.
C1_FirstTaggedItemIsReturned ==
    (appOut # NotRun /\ TaggedAt(json) # {}) =>
        (IsReadingObject(contentItems(json)[FirstTagged(json)].json)
            => appOut = Ok(contentItems(json)[FirstTagged(json)].json))

\* C1 witness: a reading returned from a tagged item that is not the first
\* content item, in a response that also carries a text item and output_text
C1_Witness ==
    /\ appOut.kind = "Reading"
    /\ TaggedAt(json) # {}
    /\ FirstTagged(json) > 1
    /\ isTextContent(contentItems(json)[1])
    /\ json.output_text.t = "string"
    /\ appOut.reading = contentItems(json)[FirstTagged(json)].json

\* the texts a response holds: of its content items, and of output_text
TextsPresent(j) ==
    {contentItems(j)[i].text.toks :
        i \in {k \in 1..Len(contentItems(j)) : contentItems(j)[k].text.t = "string"}}
    \cup (IF j.output_text.t = "string" THEN {j.output_text.toks} ELSE {})
    \cup {j.output_text.list[i].toks :
            i \in {k \in 1..Len(j.output_text.list) : j.output_text.list[k].t = "string"}}

\* a text that is valid JSON for an object with a numeric ppm and non-empty
\* string source and timestamp
IsReadingText(toks) == JSONParse(toks).ok /\ IsReadingObject(JSONParse(toks).val)

TextItemsAt(j) == {i \in 1..Len(contentItems(j)) : contentItems(j)[i].text.t = "string"}

\* the first text of a response: of the first content item carrying text, else
\* output_text, or its first element when it is a list
FirstText(j) ==
    IF TextItemsAt(j) # {}
    THEN contentItems(j)[CHOOSE i \in TextItemsAt(j) : \A k \in TextItemsAt(j) : i <= k].text
    ELSE IF j.output_text.t = "array"
    THEN IF j.output_text.list = <<>> THEN NoText ELSE Head(j.output_text.list)
    ELSE [t |-> j.output_text.t, toks |-> j.output_text.toks]

IsValidCandidate(c) ==
    /\ ~Nullish(c.v)
    /\ IsFinite(ToNumber(c.ppm))
    /\ c.source.t = "string" /\ c.source.s # <<>>
    /\ c.timestamp.t = "string" /\ c.timestamp.s # <<>>

\* C3 as stated, in its "only" direction: once a candidate is obtained, a
\* Reading is returned only when its ppm coerces to a finite number and its
\* source and timestamp are non-empty strings; for every other candidate the
\* fetch fails and returns no reading.
C3_ReadingOnlyIfValidCandidate ==
    /\ (appOut # NotRun /\ parsed(json).kind = "candidate"
            /\ ~IsValidCandidate(parsed(json).reading))
            => (appOut.kind \notin {"Reading", "none"} /\ appOut.reading = NoValue)
    /\ (scriptOut # NotRun /\ scriptReading(json).kind = "candidate"
            /\ ~IsValidCandidate(scriptReading(json).reading))
            => (scriptOut.kind \notin {"Reading", "none"} /\ scriptOut.reading = NoValue)

\* a candidate that is no object, or an object lacking one of the three fields
LacksField(c) ==
    \/ c.v.t # "object"
    \/ c.ppm.t = "undefined"
    \/ c.source.t = "undefined"
    \/ c.timestamp.t = "undefined"

\* C8 as stated: a candidate parsed from valid JSON that lacks a required
\* field, or is not an object at all (such as null), fails with the
\* ValidationError and with no other kind of error.
C8_LackingFieldIsValidationError ==
    /\ (appOut # NotRun /\ parsed(json).kind = "candidate" /\ LacksField(parsed(json).reading))
            => appOut.kind = "ValidationError"
    /\ (scriptOut # NotRun /\ scriptReading(json).kind = "candidate"
            /\ LacksField(scriptReading(json).reading))
            => scriptOut.kind = "ValidationError"

\* no tagged item, no content item carrying text, and a list-valued output_text
OnlyTextList(j) == TaggedAt(j) = {} /\ TextItemsAt(j) = {} /\ j.output_text.t = "array"

FirstElement(list) == IF list = <<>> THEN NoText ELSE Head(list)

StringsAt(list) == {i \in 1..Len(list) : list[i].t = "string"}

FirstString(list) ==
    IF StringsAt(list) = {} THEN NoText
    ELSE list[CHOOSE i \in StringsAt(list) : \A k \in StringsAt(list) : i <= k]

NoTextAnywhere(j) == TaggedAt(j) = {} /\ TextItemsAt(j) = {} /\ j.output_text.t = "undefined"

\* C10 as stated: a response with no structured content and no text anywhere
\* fails with the NoContentError, and a response in which some (non-empty)
\* text is present never does.
C10_NoContentIffNoText ==
    /\ appOut # NotRun =>
            /\ NoTextAnywhere(json) => appOut.kind = "NoContentError"
            /\ (WellTyped(json) /\ appOut.kind = "NoContentError")
                    => TextsPresent(json) \subseteq {<<>>}
    /\ scriptOut # NotRun =>
            /\ NoTextAnywhere(json) => scriptOut.kind = "NoContentError"
            /\ (WellTyped(json) /\ scriptOut.kind = "NoContentError")
                    => TextsPresent(json) \subseteq {<<>>}

\* C10 amended: a response with no structured content and no text anywhere
\* fails with the NoContentError, and the NoContentError is raised only when
\* the first text of the response (the text of the first content item carrying
\* text, else output_text, or its first element when it is a list) is absent,
\* empty or not a string: a response whose first text is a non-empty string
\* never fails with the NoContentError.
C10_NoContentOnlyIfFirstTextEmpty ==
    /\ appOut # NotRun =>
            /\ NoTextAnywhere(json) => appOut.kind = "NoContentError"
            /\ appOut.kind = "NoContentError"
                    => ~(FirstText(json).t = "string" /\ FirstText(json).toks # <<>>)
    /\ scriptOut # NotRun =>
            /\ NoTextAnywhere(json) => scriptOut.kind = "NoContentError"
            /\ scriptOut.kind = "NoContentError"
                    => ~(FirstText(json).t = "string" /\ FirstText(json).toks # <<>>)

\* C10 witness: both programs failed with the NoContentError on a response
\* that has content items, none tagged and none carrying text, and no output_text
C10_Witness ==
    /\ NoTextAnywhere(json)
    /\ Len(contentItems(json)) > 0
    /\ appOut.kind = "NoContentError"
    /\ scriptOut.kind = "NoContentError"

\* the text tier is used and the text found is a string that is not valid JSON
NonJsonTextFound(j) ==
    /\ TaggedAt(j) = {}
    /\ FirstText(j).t = "string"
    /\ ~JSONParse(FirstText(j).toks).ok

\* C11 as stated: whenever the text tier is used and the text found is not
\* valid JSON, the empty string included, normalization fails with the
\* MalformedJsonError and no Reading is produced.
C11_EveryNonJsonTextIsMalformed ==
    NonJsonTextFound(json) =>
        /\ appOut # NotRun => appOut.kind = "MalformedJsonError"
        /\ scriptOut # NotRun => scriptOut.kind = "MalformedJsonError"

\* C11 amended: whenever the text tier is used and the text found is a
\* non-empty string that is not valid JSON, normalization fails with the
\* MalformedJsonError and no Reading is produced; when the text found is the
\* empty string, normalization fails with the NoContentError instead.
C11_NonEmptyNonJsonTextIsMalformed ==
    NonJsonTextFound(json) =>
        /\ appOut # NotRun =>
                /\ appOut.kind # "Reading"
                /\ appOut = IF FirstText(json).toks = <<>>
                            THEN Err("NoContentError", MsgAppNoContent)
                            ELSE Err("MalformedJsonError", MsgAppMalformed)
        /\ scriptOut # NotRun =>
                /\ scriptOut.kind # "Reading"
                /\ scriptOut = IF FirstText(json).toks = <<>>
                               THEN Err("NoContentError", MsgScriptNoContent)
                               ELSE Err("MalformedJsonError", MsgScriptMalformed)

\* C11 witness: both programs failed with the MalformedJsonError on the text
\* of a content item that is cut short, although output_text holds a reading
C11_Witness ==
    /\ NonJsonTextFound(json)
    /\ TextItemsAt(json) # {}
    /\ FirstText(json).toks = CutShort(Encode(ReadingB))
    /\ json.output_text.t = "string"
    /\ IsReadingText(json.output_text.toks)
    /\ appOut.kind = "MalformedJsonError"
    /\ scriptOut.kind = "MalformedJsonError"

\* C14 as stated: for every response body the app and the script agree on
\* whether normalization succeeds, and on success they yield the same ppm,
\* source and timestamp.
C14_SameNormalization ==
    (appOut # NotRun /\ scriptOut # NotRun) =>
        /\ (appOut.kind = "Reading") <=> (scriptOut.kind = "Reading")
        /\ appOut.kind = "Reading" => appOut.reading = scriptOut.reading

(***************************************************************************)
(* App.tsx, getOpenAIApiKey, and SpecKey: it applied to every environment. *)
(***************************************************************************)
\* a ?? b
Coalesce(a, b) == IF Nullish(a) THEN b ELSE a

getOpenAIApiKey(e) ==
    LET envKey == Coalesce(e.EXPO_PUBLIC_OPENAI_API_KEY, e.OPENAI_API_KEY)
        extraKey == e.openaiApiKey
    IN IF Truthy(envKey) /\ Len(envKey.s) > 0 THEN envKey
       ELSE IF Truthy(extraKey) /\ Len(extraKey.s) > 0 THEN extraKey
       ELSE Undefined

\* what a credential source holds: nothing, the empty string, or a key
KeyValues == {Undefined, Str(<<>>), Str(<<"a">>), Str(<<"b">>), Str(<<"c">>)}

Envs == [EXPO_PUBLIC_OPENAI_API_KEY : KeyValues, OPENAI_API_KEY : KeyValues,
         openaiApiKey : KeyValues]

InitKey ==
    /\ env \in Envs
    /\ keyOut = Unresolved
    /\ json = NoResponse
    /\ appOut = NotRun
    /\ scriptOut = NotRun
    /\ RunIdle

ResolveKey ==
    /\ keyOut = Unresolved
    /\ keyOut' = getOpenAIApiKey(env)
    /\ UNCHANGED <<json, appOut, scriptOut, env, runVars>>

NextKey == ResolveKey

SpecKey == InitKey /\ [][NextKey]_vars

\* the first of the three sources that is set and non-empty, if any
FirstAvailable(e) ==
    LET available(x) == x.t = "string" /\ x.s # <<>>
    IN IF available(e.EXPO_PUBLIC_OPENAI_API_KEY) THEN e.EXPO_PUBLIC_OPENAI_API_KEY
       ELSE IF available(e.OPENAI_API_KEY) THEN e.OPENAI_API_KEY
       ELSE IF available(e.openaiApiKey) THEN e.openaiApiKey
       ELSE Undefined

\* C5 as stated: getOpenAIApiKey returns the first of
\* EXPO_PUBLIC_OPENAI_API_KEY, OPENAI_API_KEY and extra.openaiApiKey that is set
\* and non-empty, and no credential only when none of the three is.
C5_FirstAvailableWins ==
    keyOut # Unresolved => keyOut = FirstAvailable(env)

(***************************************************************************)
(* Spec: one run of a program.  The HTTP endpoint answers each request     *)
(* with a failure status or with one of a few response bodies.             *)
(***************************************************************************)
RunBodies ==
    {Response(Array(<<OutputItem(Array(<<Item(Type("json_schema"), NoText, ReadingA)>>))>>),
              NoOutputText),
     Response(NoArray, OutputTextString(Encode(ReadingB))),
     Response(NoArray, OutputTextString(Prose)),
     Response(NoArray, OutputTextString(Encode(Obj(Infinity, Str(<<"u">>), Str(<<"t">>))))),
     NoResponse}

HttpReplies == {[ok |-> FALSE, body |-> NoResponse]} \cup {[ok |-> TRUE, body |-> b] : b \in RunBodies}

\* the environments of a run: no credential, one in a single place, or one
\* behind an empty EXPO_PUBLIC_OPENAI_API_KEY
RunEnvs ==
    {NoEnv,
     [NoEnv EXCEPT !.EXPO_PUBLIC_OPENAI_API_KEY = Str(<<"a">>)],
     [NoEnv EXCEPT !.OPENAI_API_KEY = Str(<<"b">>)],
     [NoEnv EXCEPT !.openaiApiKey = Str(<<"c">>)],
     [NoEnv EXCEPT !.EXPO_PUBLIC_OPENAI_API_KEY = Str(<<>>), !.OPENAI_API_KEY = Str(<<"b">>)]}

MsgAppMissingKey == "Missing OpenAI API key. Provide EXPO_PUBLIC_OPENAI_API_KEY in your environment or set expo.extra.openaiApiKey in app.json."
MsgRequestFailed == "OpenAI request failed: 500 Internal Server Error - "
MsgScriptMissingKey == "Missing OPENAI_API_KEY environment variable."

(***************************************************************************)
(* App.tsx: fetchCurrentCo2 around the network call.                       *)
(***************************************************************************)
\* mutant: the request is sent before the key is checked
requestIssued_BeforeCheck(e) == TRUE

\* fetchCurrentCo2 reaches its fetch call: only past the check of the key
requestIssued(e) == Truthy(getOpenAIApiKey(e))

\* what fetchCurrentCo2 throws before the network call, if anything
thrownBeforeRequest(e) ==
    IF ~Truthy(getOpenAIApiKey(e)) THEN Err("AuthError", MsgAppMissingKey) ELSE NotRun

\* fetchCurrentCo2 from the reply of the endpoint to its return or throw
fetchOutcome(reply) ==
    IF ~reply.ok THEN Err("RequestError", MsgRequestFailed) ELSE normalizeApp(reply.body)

(***************************************************************************)
(* App.tsx: the App component.  A load is one call of loadReading:         *)
(*   st = "rejected"   fetchCurrentCo2 threw; the catch is the next        *)
(*                     microtask                                           *)
(*   st = "requested"  the HTTP request is outstanding                     *)
(*   st = "settled"    loadReading has returned; onRefresh's finally is    *)
(*                     the next microtask                                  *)
(*   st = "done"       nothing of the load remains to run                  *)
(***************************************************************************)
Load(origin, e) ==
    [origin |-> origin,
     st |-> IF requestIssued(e) THEN "requested" ELSE "rejected",
     outcome |-> thrownBeforeRequest(e)]

\* a microtask is queued: it runs before any event or response is handled
MicrotaskPending == \E i \in 1..Len(loads) : loads[i].st \in {"rejected", "settled"}

Outstanding == {i \in 1..Len(loads) : loads[i].st = "requested"}

InitApp ==
    /\ reading = Prim(Null)
    /\ loading = TRUE
    /\ error = NoError
    /\ refreshing = FALSE
    /\ mounted = FALSE
    /\ loads = <<>>

\* useEffect(() => { void loadReading(); }): loadReading up to its await
Mount ==
    /\ program = "app"
    /\ ~mounted
    /\ mounted' = TRUE
    /\ error' = NoError
    /\ loads' = Append(loads, Load("mount", env))
    /\ requests' = requests + (IF requestIssued(env) THEN 1 ELSE 0)
    /\ UNCHANGED <<reading, loading, refreshing>>

\* the RefreshControl fires onRefresh unless it shows refreshing:
\* onRefresh, and loadReading up to its await
onRefresh ==
    /\ program = "app"
    /\ mounted
    /\ ~refreshing
    /\ ~MicrotaskPending
    /\ Len(loads) < MaxLoads
    /\ refreshing' = TRUE
    /\ loading' = TRUE
    /\ error' = NoError
    /\ loads' = Append(loads, Load("refresh", env))
    /\ requests' = requests + (IF requestIssued(env) THEN 1 ELSE 0)
    /\ UNCHANGED <<reading, mounted>>

\* mutant: the catch swallows the error without setError
loadReadingResume_NoSetError(i, outcome) ==
    /\ IF outcome.kind = "Reading"
       THEN reading' = outcome.reading
       ELSE UNCHANGED reading
    /\ loading' = FALSE
    /\ loads' = [loads EXCEPT ![i].st = IF loads[i].origin = "refresh" THEN "settled" ELSE "done",
                               ![i].outcome = outcome]
    /\ UNCHANGED <<error, refreshing, mounted, requests>>

\* mutant: loadReading without its finally block
loadReadingResume_NoFinally(i, outcome) ==
    /\ IF outcome.kind = "Reading"
       THEN reading' = outcome.reading /\ UNCHANGED error
       ELSE error' = Message(outcome.message) /\ UNCHANGED reading
    /\ loads' = [loads EXCEPT ![i].st = IF loads[i].origin = "refresh" THEN "settled" ELSE "done",
                               ![i].outcome = outcome]
    /\ UNCHANGED <<loading, refreshing, mounted, requests>>

\* loadReading from the end of its await: try/catch/finally
loadReadingResume(i, outcome) ==
    /\ IF outcome.kind = "Reading"
       THEN reading' = outcome.reading /\ UNCHANGED error
       ELSE error' = Message(outcome.message) /\ UNCHANGED reading
    /\ loading' = FALSE
    /\ loads' = [loads EXCEPT ![i].st = IF loads[i].origin = "refresh" THEN "settled" ELSE "done",
                               ![i].outcome = outcome]
    /\ UNCHANGED <<refreshing, mounted, requests>>

\* the endpoint answers the request of load i
Respond ==
    /\ program = "app"
    /\ ~MicrotaskPending
    /\ \E i \in Outstanding, reply \in HttpReplies : loadReadingResume(i, fetchOutcome(reply))

\* the rejection of fetchCurrentCo2 reaches loadReading's catch
Reject ==
    /\ program = "app"
    /\ \E i \in 1..Len(loads) :
          /\ loads[i].st = "rejected"
          /\ loadReadingResume(i, loads[i].outcome)

\* onRefresh from the end of its await: finally { setRefreshing(false) }
onRefreshResume ==
    /\ program = "app"
    /\ \E i \in 1..Len(loads) :
          /\ loads[i].st = "settled"
          /\ refreshing' = FALSE
          /\ loads' = [loads EXCEPT ![i].st = "done"]
    /\ UNCHANGED <<reading, loading, error, mounted, requests>>

\* the view the content memo renders
content ==
    IF loading /\ ~refreshing /\ reading = Prim(Null) THEN "loading"
    ELSE IF error.t = "string" /\ error.message # "" THEN "error"
    ELSE IF reading = Prim(Null) THEN "no-data"
    ELSE "success"

(***************************************************************************)
(* scripts/update-co2.mjs: the run of the script.                          *)
(***************************************************************************)
Stamps == {"T1", "T2"}

InitScript ==
    /\ pc = "start"
    /\ result = NotRun
    /\ file \in {NoFile, [exists |-> TRUE, payload |-> ReadingC, updated_at |-> "T0"]}

\* lines 3-53: the check of API_KEY, then the request
ScriptStart ==
    /\ program = "script"
    /\ pc = "start"
    /\ IF ~Truthy(env.OPENAI_API_KEY)
       THEN /\ pc' = "failed"
            /\ result' = Err("AuthError", MsgScriptMissingKey)
            /\ UNCHANGED requests
       ELSE /\ pc' = "fetching"
            /\ requests' = requests + 1
            /\ UNCHANGED result
    /\ UNCHANGED file

\* mutant: the run goes on to the write whatever normalization yields
ScriptReply_AlwaysValidated ==
    /\ program = "script"
    /\ pc = "fetching"
    /\ \E reply \in HttpReplies :
          LET outcome == IF ~reply.ok THEN Err("RequestError", MsgRequestFailed)
                         ELSE normalizeScript(reply.body)
          IN /\ result' = outcome
             /\ pc' = "validated"
    /\ UNCHANGED <<requests, file>>

\* lines 55-101: the reply, normalization and the payload
ScriptReply ==
    /\ program = "script"
    /\ pc = "fetching"
    /\ \E reply \in HttpReplies :
          LET outcome == IF ~reply.ok THEN Err("RequestError", MsgRequestFailed)
                         ELSE normalizeScript(reply.body)
          IN /\ result' = outcome
             /\ pc' = IF outcome.kind = "Reading" THEN "validated" ELSE "failed"
    /\ UNCHANGED <<requests, file>>

\* lines 103-106: writeFile and the log
ScriptWrite ==
    /\ program = "script"
    /\ pc = "validated"
    /\ \E now \in Stamps :
          file' = [exists |-> TRUE, payload |-> result.reading, updated_at |-> now]
    /\ pc' = "done"
    /\ UNCHANGED <<requests, result>>

Init ==
    /\ program \in {"app", "script"}
    /\ env \in RunEnvs
    /\ requests = 0
    /\ InitApp
    /\ InitScript
    /\ json = NoResponse
    /\ appOut = NotRun
    /\ scriptOut = NotRun
    /\ keyOut = Unresolved

Next ==
    \/ (Mount /\ UNCHANGED <<normVars, env, keyOut, program, scriptVars>>)
    \/ (onRefresh /\ UNCHANGED <<normVars, env, keyOut, program, scriptVars>>)
    \/ (Respond /\ UNCHANGED <<normVars, env, keyOut, program, scriptVars>>)
    \/ (Reject /\ UNCHANGED <<normVars, env, keyOut, program, scriptVars>>)
    \/ (onRefreshResume /\ UNCHANGED <<normVars, env, keyOut, program, scriptVars>>)
    \/ (ScriptStart /\ UNCHANGED <<normVars, env, keyOut, program, appVars>>)
    \/ (ScriptReply /\ UNCHANGED <<normVars, env, keyOut, program, appVars>>)
    \/ (ScriptWrite /\ UNCHANGED <<normVars, env, keyOut, program, appVars>>)

Spec == Init /\ [][Next]_vars

(***************************************************************************)
(* LiveSpec: the run under the scheduling the runtime gives.  The effect   *)
(* of the mount runs, a queued continuation (the catch of loadReading, the *)
(* finally of onRefresh) runs, and every request is answered or fails.     *)
(* The user is never bound to pull to refresh.                             *)
(***************************************************************************)
Scheduled == Mount \/ Respond \/ Reject \/ onRefreshResume

LiveSpec == Spec /\ WF_vars(Scheduled /\ UNCHANGED <<normVars, env, keyOut, program, scriptVars>>)

(***************************************************************************)
(* Properties of a program run (Spec).                                     *)
(***************************************************************************)
\* C4: with no credential configured, every fetch attempt of the app fails with
\* the missing-credential error and the script ends with it, and neither
\* program issues an HTTP request at any point.
C4_NoRequestWithoutCredential ==
    /\ (program = "app" /\ FirstAvailable(env) = Undefined) =>
            /\ requests = 0
            /\ \A i \in 1..Len(loads) :
                    /\ loads[i].st # "requested"
                    /\ loads[i].outcome = Err("AuthError", MsgAppMissingKey)
            /\ (\E i \in 1..Len(loads) : loads[i].st # "rejected")
                    => error \in {NoError, Message(MsgAppMissingKey)}
    /\ (program = "script" /\ ~(env.OPENAI_API_KEY.t = "string" /\ env.OPENAI_API_KEY.s # <<>>)) =>
            /\ requests = 0
            /\ pc \in {"start", "failed"}
            /\ pc = "failed" => result = Err("AuthError", MsgScriptMissingKey)

\* C4 witness: without a credential the mount's load and a refresh have both
\* failed with the missing-credential error, and no request was issued
C4_Witness ==
    /\ program = "app"
    /\ FirstAvailable(env) = Undefined
    /\ Len(loads) >= 2
    /\ \A i \in 1..Len(loads) : loads[i].st = "done" /\ loads[i].outcome.kind = "AuthError"
    /\ error = Message(MsgAppMissingKey)
    /\ requests = 0

\* C6 as stated: at most one fetch request of the app is outstanding at any
\* time.
C6_AtMostOneOutstanding ==
    program = "app" => Cardinality(Outstanding) <= 1

\* C7 as stated, for the states in which the load started at mount has run to
\* its end: the content rendered is the loading indicator, the error view or
\* the success view, and no fourth view.
C7_ThreeViews ==
    (program = "app" /\ Len(loads) >= 1 /\ loads[1].st = "done") =>
        content \in {"loading", "error", "success"}

\* C7 amended: the content rendered is one of exactly four views: the loading
\* indicator, the error view with its message, the success view showing a
\* reading, or the "No data available" placeholder; the placeholder is
\* rendered only while a refresh is in progress with no reading held and no
\* error set, and the loading indicator only while no reading is held.
C7_FourViews ==
    program = "app" =>
        /\ content \in {"loading", "error", "no-data", "success"}
        /\ content = "no-data" => (refreshing /\ reading = Prim(Null) /\ error = NoError)
        /\ content = "loading" => (loading /\ reading = Prim(Null))
        /\ content = "error" => error # NoError
        /\ content = "success" => (reading # Prim(Null) /\ error = NoError)

\* C7 witness: the placeholder is rendered, after the mount's load failed and
\* while the refresh that followed is outstanding
C7_Witness ==
    /\ program = "app"
    /\ content = "no-data"
    /\ Len(loads) = 2
    /\ loads[1].st = "done"
    /\ loads[1].outcome.kind \notin {"Reading", "none"}
    /\ loads[2].st = "requested"

\* a reading as the script validates it: a finite ppm and non-empty string
\* source and timestamp
IsValidatedReading(r) ==
    /\ r.kind = "Reading"
    /\ IsFinite(r.reading.ppm)
    /\ TypeOf(r.reading.source) = "string" /\ r.reading.source.s # <<>>
    /\ TypeOf(r.reading.timestamp) = "string" /\ r.reading.timestamp.s # <<>>

\* C12: in the script every failure (of the credential check, the request, the
\* content lookup, the parse or the validation) ends the run failed with the
\* file as it was: the file changes in one step only, the write that ends a
\* run holding a fully validated reading, which becomes its payload, and
\* nothing follows a failed or finished run.
C12_WriteOnlyAfterValidation ==
    [][program = "script" =>
        /\ file' # file =>
                /\ pc = "validated" /\ pc' = "done"
                /\ IsValidatedReading(result)
                /\ file'.exists /\ file'.payload = result.reading
        /\ pc' = "failed" =>
                /\ result'.kind \in {"AuthError", "RequestError", "NoContentError",
                                     "MalformedJsonError", "ValidationError"}
                /\ file' = file
        /\ pc \in {"failed", "done"} => (pc' = pc /\ file' = file)]_vars

\* C12 witness: a run has failed at validation and the file written by an
\* earlier run is in place
C12_Witness ==
    /\ program = "script"
    /\ pc = "failed"
    /\ result = Err("ValidationError", MsgScriptValidation)
    /\ requests = 1
    /\ file = [exists |-> TRUE, payload |-> ReadingC, updated_at |-> "T0"]

\* load i ends in this step, its fetch having failed
FailsNow(i) ==
    /\ i <= Len(loads)
    /\ loads[i].st \in {"requested", "rejected"}
    /\ loads'[i].st \in {"settled", "done"}
    /\ loads'[i].outcome.kind # "Reading"

\* load i has run to its end
Ended(i) == IF i <= Len(loads) THEN loads[i].st = "done" ELSE FALSE

\* no load is in progress and a reading or an error message is held
AtRest ==
    /\ ~loading
    /\ ~refreshing
    /\ (reading # Prim(Null) \/ (error.t = "string" /\ error.message # ""))

\* C13: in the app every failure of a fetch, of any kind, is caught in
\* loadReading and becomes a non-null error message; no load is retried (a load
\* issues at most one request); and, every request being answered or failing,
\* every load started runs to its end and the app comes to a state with
\* loading = false and refreshing = false that holds a reading or an error
\* message.
C13_FailuresSurfaceAndLoadsComplete ==
    /\ [][program = "app" =>
            \A i \in 1..MaxLoads :
                FailsNow(i) => /\ error' = Message(loads'[i].outcome.message)
                               /\ error'.message # ""]_vars
    /\ [](program = "app" => requests <= Len(loads))
    /\ \A i \in 1..MaxLoads :
            (program = "app" /\ Len(loads) >= i) ~> Ended(i)
    /\ (program = "app") ~> AtRest

\* C13 witness: a load has succeeded and the refresh after it has failed with
\* the request error; both are at their end, the error message is set, the
\* flags are down and two requests were issued for the two loads
C13_Witness ==
    /\ program = "app"
    /\ Len(loads) = 2
    /\ loads[1].st = "done" /\ loads[1].outcome.kind = "Reading"
    /\ loads[2].st = "done" /\ loads[2].outcome = Err("RequestError", MsgRequestFailed)
    /\ error = Message(MsgRequestFailed)
    /\ AtRest
    /\ requests = 2

\* every load started has run to its end
AllEnded == Len(loads) >= 1 /\ \A i \in 1..Len(loads) : loads[i].st = "done"

\* C15 as stated: once all loads started have run to their end, the state
\* holds the outcome of the load started last: its success leaves error = null
\* and reading = its result, its failure leaves its message as the error, in
\* whatever order the responses arrived.
C15_LatestLoadWins ==
    (program = "app" /\ AllEnded) =>
        LET last == loads[Len(loads)].outcome
        IN IF last.kind = "Reading"
           THEN error = NoError /\ reading = last.reading
           ELSE error = Message(last.message)

\* C16 as stated, for the states in which no continuation is queued: loading
\* is true whenever a request is outstanding, and refreshing = true implies
\* loading = true.
C16_FlagsTrackOutstanding ==
    (program = "app" /\ ~MicrotaskPending) =>
        /\ Outstanding # {} => loading
        /\ refreshing => loading

====
